---- MODULE Spec2Model ----
(***************************************************************************)
(* Model of the credit-card recommendation chatbot.                        *)
(*                                                                         *)
(*   Spec    the RAG core, generateRecommendations: one request            *)
(*           as the sequence of its segments between awaits.               *)
(*   SpecUI  the chat page, Home: handleSend and the input handlers.       *)
(*                                                                         *)
(* JavaScript values are records [t, s]: t is the typeof tag ("undefined", *)
(* "null", "string", "number", "object") and s the value's text.          *)
(***************************************************************************)
EXTENDS Naturals, Sequences, FiniteSets

\* ------------------------------------------------------------------ bounds

\* largest topN a request is made with
MaxTopN == 2
\* longest "cards" array the chat model answers with
MaxRecs == 2

\* --------------------------------------------------------------- JS values

JV(t, s) == [t |-> t, s |-> s]
Undefined == JV("undefined", "")
Null == JV("null", "")
Str(s) == JV("string", s)
Num(s) == JV("number", s)

\* ToBoolean of a JS value, as `&&`, `||` and `!` apply it
Truthy(v) ==
    CASE v.t = "undefined" -> FALSE
      [] v.t = "null" -> FALSE
      [] v.t = "string" -> v.s # ""
      [] v.t = "number" -> v.s # "0"
      [] OTHER -> TRUE

\* -------------------------------------------------------------- the corpus

\* CreditCard records of the store (interface CreditCard)
Card(name, url) == [credit_card_name |-> name, url_application |-> url]
CardA == Card("A", "http://x")
CardC == Card("C", "http://y")
Store == {CardA, CardC}

\* duplicate-free sequences over a set, of length at most n
RECURSIVE SeqsUpTo(_, _)
SeqsUpTo(S, n) ==
    IF n = 0 THEN {<<>>}
    ELSE LET shorter == SeqsUpTo(S, n - 1)
         IN shorter \cup
            {Append(q, x) : q \in {r \in shorter : Len(r) = n - 1}, x \in S}

Range(q) == {q[i] : i \in DOMAIN q}
Distinct(q) == Cardinality(Range(q)) = Len(q)

\* what findSimilarCards(queryEmbedding, topN) can resolve to: at most topN
\* entries of the store, none twice
SimilarCardsResults(n) == {q \in SeqsUpTo(Store, n) : Distinct(q)}

\* ------------------------------------------------------- the model's answer

\* A recommendation object as the model may emit it: an element of the "cards"
\* array. t = "object" carries the three fields; null and a bare string are
\* the other elements JSON allows (property reads of a string are undefined).
Rec(name, url, reason) ==
    [t |-> "object", credit_card_name |-> name, apply_url |-> url, reason |-> reason]
NullRec == [t |-> "null", credit_card_name |-> Undefined, apply_url |-> Undefined,
            reason |-> Undefined]
StrRec == [t |-> "string", credit_card_name |-> Undefined, apply_url |-> Undefined,
           reason |-> Undefined]

NameValues == {Undefined, Num("1"), Str("A"), Str("C"), Str("Z")}
UrlValues == {Null, Str("http://x"), Str("http://y")}
ReasonValues == {Undefined, Str(""), Str("ok")}
RecValues ==
    {Rec(n, u, r) : n \in NameValues, u \in UrlValues, r \in ReasonValues}
        \cup {NullRec, StrRec}

\* the value of the "cards" member of the parsed answer
CardsValue(t, s, items) == [t |-> t, s |-> s, items |-> items]
NoCards == CardsValue("undefined", "", <<>>)
NullCards == CardsValue("null", "", <<>>)
StrCards == CardsValue("string", "none", <<>>)
ArrayCards(items) == CardsValue("array", "", items)
CardsValues ==
    {NoCards, NullCards, StrCards} \cup {ArrayCards(q) : q \in SeqsUpTo(RecValues, MaxRecs)}

\* a JSON document: what JSON.parse returns
Doc(t, cards) == [t |-> t, cards |-> cards]
NoJson == Doc("syntaxerror", NoCards)
NullDoc == Doc("null", NoCards)
NumDoc == Doc("number", NoCards)
ObjDoc(cards) == Doc("object", cards)
Docs == {NullDoc, NumDoc} \cup {ObjDoc(c) : c \in CardsValues}

\* message.content of the completion: a JS value; a string also carries the
\* document it is the JSON text of (NoJson when it is not JSON text)
Text(t, s, json) == [t |-> t, s |-> s, json |-> json]
NoContent == Text("undefined", "", NoJson)
NullContent == Text("null", "", NoJson)
EmptyText == Text("string", "", NoJson)
ProseText == Text("string", "I recommend card A.", NoJson)
TruncatedText == Text("string", "{\"cards\":[{\"credit_card_name\":\"A\",", NoJson)
JsonText(doc) == Text("string", "{...}", doc)
NoMatchText == Text("string", "No matching cards found.", NoJson)
Contents ==
    {NoContent, NullContent, EmptyText, ProseText, TruncatedText}
        \cup {JsonText(d) : d \in Docs}

\* ----------------------------------------------------------- pure helpers

\* the content without the default
RawAnswerNoDefault(content) == content

\* completion.choices[0]?.message?.content || ''
RawAnswerOf(content) == IF Truthy(content) THEN content ELSE EmptyText

\* JSON.parse: the document of a JSON text, a SyntaxError otherwise
JSONParse(text) ==
    IF text.json.t = "syntaxerror"
    THEN [ok |-> FALSE, value |-> NoJson]
    ELSE [ok |-> TRUE, value |-> text.json]

\* parsed.cards || []  (a TypeError when parsed is null)
CardsOf(parsed) ==
    IF parsed.t = "null"
    THEN [ok |-> FALSE, value |-> NoCards]
    ELSE LET member == IF parsed.t = "object" THEN parsed.cards ELSE NoCards
         IN [ok |-> TRUE,
             value |-> IF Truthy(member) THEN member ELSE ArrayCards(<<>>)]

\* the predicate without the candidate test
IsValidRecommendationAnyName(rec, similarCards) ==
    /\ Truthy(rec.credit_card_name)
    /\ Truthy(rec.apply_url)
    /\ Truthy(rec.reason)

\* the predicate without the reason test
IsValidRecommendationNoReason(rec, similarCards) ==
    /\ Truthy(rec.credit_card_name)
    /\ Truthy(rec.apply_url)
    /\ \E i \in DOMAIN similarCards :
          Str(similarCards[i].credit_card_name) = rec.credit_card_name

\* the filter's predicate
IsValidRecommendation(rec, similarCards) ==
    /\ Truthy(rec.credit_card_name)
    /\ Truthy(rec.apply_url)
    /\ Truthy(rec.reason)
    /\ \E i \in DOMAIN similarCards :
          Str(similarCards[i].credit_card_name) = rec.credit_card_name

\* recommendations.filter(...): a TypeError when the value has no filter
\* method or the predicate reads a property of null
FilterRecommendations(recs, similarCards) ==
    IF recs.t # "array" \/ \E i \in DOMAIN recs.items : recs.items[i].t = "null"
    THEN [ok |-> FALSE, value |-> <<>>]
    ELSE [ok |-> TRUE,
          value |-> SelectSeq(recs.items,
                              LAMBDA rec : IsValidRecommendation(rec, similarCards))]

Response(recs, raw) == [recommendations |-> recs, rawModelAnswer |-> raw]
NoResponse == Response(<<>>, NoContent)

\* Step 5: the inner try/catch around parse and validation
ParseResponse(rawAnswer, similarCards) ==
    LET parsed == JSONParse(rawAnswer)
        cards == CardsOf(parsed.value)
        valid == FilterRecommendations(cards.value, similarCards)
    IN IF parsed.ok /\ cards.ok /\ valid.ok
       THEN Response(valid.value, rawAnswer)
       ELSE Response(<<>>, rawAnswer)

\* formatCardsForContext: one line per card
FormatCardsForContext(cards) ==
    [i \in DOMAIN cards |->
        <<cards[i].credit_card_name, "|", "URL:", cards[i].url_application>>]

\* ------------------------------------------------- generateRecommendations

VARIABLES
    credential,      \* process.env.OPENAI_API_KEY is set
    pc,              \* where the request is: the await it is suspended at
    userQuery,       \* argument
    topN,            \* argument
    queryEmbedding,  \* const queryEmbedding
    similarCards,    \* const similarCards
    context,         \* const context
    completion,      \* message.content of the completion received
    result,          \* the RecommendationsResponse returned
    error,           \* the error thrown to the caller
    failed,          \* the step whose failure ended the request
    steps,           \* the pipeline steps started, in order
    inProgress,      \* the steps started and not yet settled
    embedCalls,      \* calls made to the embedding service
    chatCalls,       \* calls made to the chat-completion service
    clientChecks     \* calls of getOpenAIClient

coreVars == <<credential, pc, userQuery, topN, queryEmbedding, similarCards, context,
              completion, result, error, failed, steps, inProgress, embedCalls,
              chatCalls, clientChecks>>

\* state of the chat page (below)
VARIABLES
    messages,    \* useState<Message[]>
    input,       \* useState('')
    isLoading,   \* useState(false)
    pending      \* the handleSend invocations suspended at an await, each with
                 \* what its closure holds

uiVars == <<messages, input, isLoading, pending>>
vars == <<coreVars, uiVars>>

Queries == {"Best Card for Travel"}
Embeddings == {<<1, 0>>}
NoEmbedding == <<>>
ServiceErrors == {"network error", "quota exceeded"}
ConfigError == "OPENAI_API_KEY is not set. Please check your .env.local file."
NoError == "none"
Pending == Text("pending", "", NoJson)

CoreInit ==
    /\ credential \in BOOLEAN
    /\ pc = "idle"
    /\ userQuery = ""
    /\ topN = 0
    /\ queryEmbedding = NoEmbedding
    /\ similarCards = <<>>
    /\ context = <<>>
    /\ completion = Pending
    /\ result = NoResponse
    /\ error = NoError
    /\ failed = "none"
    /\ steps = <<>>
    /\ inProgress = {}
    /\ embedCalls = 0
    /\ chatCalls = 0
    /\ clientChecks = 0

\* embedQuery(userQuery): one call to the external embedding model
EmbedQueryCall == embedCalls' = embedCalls + 1

\* the catch of the outer try: log and rethrow
Rethrow(step, e) ==
    /\ pc' = "thrown"
    /\ error' = e
    /\ failed' = step
    /\ inProgress' = {}

\* the request starts both lookups at once instead of awaiting the first
CallInParallel(q, n) ==
    /\ pc = "idle"
    /\ userQuery' = q
    /\ topN' = n
    /\ EmbedQueryCall
    /\ steps' = <<"embed", "retrieve">>
    /\ inProgress' = {"embed", "retrieve"}
    /\ pc' = "findSimilarCards"
    /\ UNCHANGED <<credential, queryEmbedding, similarCards, context, completion,
                   result, error, failed, chatCalls, clientChecks>>
    /\ UNCHANGED uiVars

\* generateRecommendations(userQuery, topN) up to `await embedQuery(userQuery)`
Call(q, n) ==
    /\ pc = "idle"
    /\ userQuery' = q
    /\ topN' = n
    /\ EmbedQueryCall
    /\ steps' = Append(steps, "embed")
    /\ inProgress' = {"embed"}
    /\ pc' = "embedQuery"
    /\ UNCHANGED <<credential, queryEmbedding, similarCards, context, completion,
                   result, error, failed, chatCalls, clientChecks>>
    /\ UNCHANGED uiVars

\* embedQuery resolves: on to `await findSimilarCards(queryEmbedding, topN)`
EmbedResolve(v) ==
    /\ pc = "embedQuery"
    /\ queryEmbedding' = v
    /\ steps' = Append(steps, "retrieve")
    /\ inProgress' = {"retrieve"}
    /\ pc' = "findSimilarCards"
    /\ UNCHANGED <<credential, userQuery, topN, similarCards, context, completion,
                   result, failed, error, embedCalls, chatCalls, clientChecks>>
    /\ UNCHANGED uiVars

\* a failed embedding call is tried again
EmbedRejectRetry(e) ==
    /\ pc = "embedQuery"
    /\ embedCalls < 2
    /\ EmbedQueryCall
    /\ UNCHANGED <<credential, pc, userQuery, topN, queryEmbedding, similarCards,
                   context, completion, result, error, failed, steps, inProgress,
                   chatCalls, clientChecks>>
    /\ UNCHANGED uiVars

\* embedQuery rejects
EmbedReject(e) ==
    /\ pc = "embedQuery"
    /\ Rethrow("embed", e)
    /\ UNCHANGED <<credential, userQuery, topN, queryEmbedding, similarCards, context,
                   completion, result, steps, embedCalls, chatCalls, clientChecks>>
    /\ UNCHANGED uiVars

\* findSimilarCards rejects
RetrieveReject(e) ==
    /\ pc = "findSimilarCards"
    /\ Rethrow("retrieve", e)
    /\ UNCHANGED <<credential, userQuery, topN, queryEmbedding, similarCards, context,
                   completion, result, steps, embedCalls, chatCalls, clientChecks>>
    /\ UNCHANGED uiVars

\* the empty-result test is never taken
NoMatchingCardsNever(cards) == FALSE

\* similarCards.length === 0
NoMatchingCards(cards) == Len(cards) = 0

\* findSimilarCards resolves: the early return, or steps 3 and 4 up to
\* `await openai.chat.completions.create(...)`
RetrieveResolve ==
    /\ pc = "findSimilarCards"
    /\ \E cards \in SimilarCardsResults(topN) :
           /\ similarCards' = cards
           /\ IF NoMatchingCards(cards)
              THEN /\ result' = Response(<<>>, NoMatchText)
                   /\ steps' = Append(steps, "assemble")
                   /\ inProgress' = {}
                   /\ pc' = "returned"
                   /\ UNCHANGED <<context, error, failed, chatCalls, clientChecks>>
              ELSE /\ context' = FormatCardsForContext(cards)
                   /\ clientChecks' = clientChecks + 1
                   /\ IF credential
                      THEN /\ chatCalls' = chatCalls + 1
                           /\ steps' = steps \o <<"format", "generate">>
                           /\ inProgress' = {"generate"}
                           /\ pc' = "chat"
                           /\ UNCHANGED <<result, error, failed>>
                      ELSE /\ steps' = Append(steps, "format")
                           /\ Rethrow("config", ConfigError)
                           /\ UNCHANGED <<result, chatCalls>>
    /\ UNCHANGED <<credential, userQuery, topN, queryEmbedding, completion, embedCalls>>
    /\ UNCHANGED uiVars

\* the completion arrives: step 5 and the return
ChatResolve ==
    /\ pc = "chat"
    /\ \E content \in Contents :
           /\ completion' = content
           /\ result' = ParseResponse(RawAnswerOf(content), similarCards)
           /\ steps' = Append(steps, "assemble")
           /\ inProgress' = {}
           /\ pc' = "returned"
    /\ UNCHANGED <<credential, userQuery, topN, queryEmbedding, similarCards, context,
                   error, failed, embedCalls, chatCalls, clientChecks>>
    /\ UNCHANGED uiVars

\* the chat-completion call rejects
ChatReject(e) ==
    /\ pc = "chat"
    /\ Rethrow("generate", e)
    /\ UNCHANGED <<credential, userQuery, topN, queryEmbedding, similarCards, context,
                   completion, result, steps, embedCalls, chatCalls, clientChecks>>
    /\ UNCHANGED uiVars

Next ==
    \/ \E q \in Queries, n \in 1..MaxTopN : Call(q, n)
    \/ \E v \in Embeddings : EmbedResolve(v)
    \/ \E e \in ServiceErrors : EmbedReject(e)
    \/ RetrieveResolve
    \/ \E e \in ServiceErrors : RetrieveReject(e)
    \/ ChatResolve
    \/ \E e \in ServiceErrors : ChatReject(e)

\* -------------------------------------------------------------- the chat page
\* Texts of the page are sequences of tokens, since the page trims and
\* concatenates them; " " is the whitespace token.

\* most sends that pass the guard
MaxTurns == 2


UStr(toks) == [t |-> "string", s |-> toks]
UUndefined == [t |-> "undefined", s |-> <<>>]
UArray(items) == [t |-> "array", s |-> items]

\* ToBoolean of a page value
UTruthy(v) ==
    CASE v.t = "undefined" -> FALSE
      [] v.t = "string" -> Len(v.s) > 0
      [] OTHER -> TRUE

\* String.prototype.trim
RECURSIVE TrimStart(_)
TrimStart(str) ==
    IF Len(str) > 0 /\ Head(str) = " " THEN TrimStart(Tail(str)) ELSE str
RECURSIVE TrimEnd(_)
TrimEnd(str) ==
    IF Len(str) > 0 /\ str[Len(str)] = " "
    THEN TrimEnd(SubSeq(str, 1, Len(str) - 1))
    ELSE str
Trim(str) == TrimEnd(TrimStart(str))

SUGGESTED_QUESTIONS ==
    {<<"Best", " ", "Card", " ", "for", " ", "Travel">>,
     <<"Best", " ", "no-annual-fee", " ", "starter", " ", "card">>}

\* texts typed into the input box: nothing, blanks, a padded word
TypedInputs == {<<>>, <<" ">>, <<" ", "a", " ">>}

Message(role, content, recs) ==
    [role |-> role, content |-> content, recommendations |-> recs]

\* the JSON body of the route's response, as response.json() yields it;
\* t = "invalid" is a body that is not JSON, t = "null" the JSON null
Body(t, err, details, raw, recs) ==
    [t |-> t, error |-> err, details |-> details, rawModelAnswer |-> raw,
     recommendations |-> recs]
InvalidBody == Body("invalid", UUndefined, UUndefined, UUndefined, UUndefined)
NullBody == Body("null", UUndefined, UUndefined, UUndefined, UUndefined)
NoBody == Body("none", UUndefined, UUndefined, UUndefined, UUndefined)
RawAnswers == {UUndefined, UStr(<<>>), UStr(<<"{\"cards\":[]}">>)}
Bodies ==
    {InvalidBody, NullBody}
        \cup {Body("object", UUndefined, UUndefined, r, c) :
                r \in RawAnswers, c \in {UUndefined, UArray(<<"A">>)}}
        \cup {Body("object", e, d, UUndefined, UUndefined) :
                e \in {UStr(<<>>), UStr(<<"Failed to generate recommendations">>)},
                d \in {UUndefined, UStr(<<"quota exceeded">>)}}

\* what a rejected promise carries
Thrown(isError, message) == [isError |-> isError, message |-> message]
FetchErrors == {Thrown(TRUE, <<"Failed to fetch">>), Thrown(FALSE, <<>>)}
SyntaxErrorThrown == Thrown(TRUE, <<"Unexpected token < in JSON at position 0">>)
TypeErrorThrown == Thrown(TRUE, <<"Cannot read properties of null (reading 'error')">>)

\* a suspended invocation: its closure and the await it is at
Closure(userMessage, newMessages, stage, ok, body) ==
    [userMessage |-> userMessage, newMessages |-> newMessages, stage |-> stage,
     ok |-> ok, body |-> body]

UIInit ==
    /\ messages = <<>>
    /\ input = <<>>
    /\ isLoading = FALSE
    /\ pending = <<>>

Remove(q, i) == SubSeq(q, 1, i - 1) \o SubSeq(q, i + 1, Len(q))

\* the send guard without the loading test
CanSendWhileLoading(inp, loading) == Len(Trim(inp)) > 0

\* the negation of handleSend's early return
CanSend(inp, loading) == ~(Len(Trim(inp)) = 0 \/ loading)

\* onChange of the input box, which is disabled while loading
SetInput(v) ==
    /\ ~isLoading
    /\ input' = v
    /\ UNCHANGED <<messages, isLoading, pending, coreVars>>

\* handleSuggestedQuestion
HandleSuggestedQuestion(question) ==
    /\ input' = question
    /\ UNCHANGED <<messages, isLoading, pending, coreVars>>

\* handleSend (the Send button, or Enter through handleKeyPress) up to
\* `await fetch(...)`; a call the guard rejects returns
HandleSend ==
    IF CanSend(input, isLoading)
    THEN LET userMessage == Trim(input)
             newMessages == Append(messages, Message("user", userMessage, UUndefined))
         IN /\ Len(messages) < 2 * MaxTurns
            /\ input' = <<>>
            /\ isLoading' = TRUE
            /\ messages' = newMessages
            /\ pending' = Append(pending,
                             Closure(userMessage, newMessages, "fetch", FALSE, NoBody))
            /\ UNCHANGED coreVars
    ELSE UNCHANGED vars

\* fetch resolves with a Response: on to `await response.json()`
FetchResolve(i, ok, body) ==
    /\ i \in DOMAIN pending
    /\ pending[i].stage = "fetch"
    /\ pending' = [pending EXCEPT ![i].stage = "json", ![i].ok = ok, ![i].body = body]
    /\ UNCHANGED <<messages, input, isLoading, coreVars>>

\* data.error || 'Failed to get recommendations', then the details
ResponseErrorMessage(data) ==
    LET errorMessage == IF UTruthy(data.error) THEN data.error.s
                        ELSE <<"Failed to get recommendations">>
        errorDetails == IF UTruthy(data.details)
                        THEN <<"\n\nDetails: ">> \o data.details.s
                        ELSE <<>>
    IN errorMessage \o errorDetails

\* the assistant message of the catch block
ErrorMessage(thrown) ==
    LET errorMessage == IF thrown.isError THEN thrown.message
                        ELSE <<"Sorry, I encountered an error. Please try again.">>
    IN Message("assistant",
               <<"Error: ">> \o errorMessage \o <<"\n\nPlease check: ...">>,
               UUndefined)

\* the raw answer is shown even when it is empty
AssistantContentRaw(data) == data.rawModelAnswer.s

\* data.rawModelAnswer || 'Here are some recommendations for you:'
AssistantContent(data) ==
    IF UTruthy(data.rawModelAnswer) THEN data.rawModelAnswer.s
    ELSE <<"Here are some recommendations for you:">>

\* the assistant message of a successful turn
AnswerMessage(data) ==
    Message("assistant", AssistantContent(data),
            IF UTruthy(data.recommendations) THEN data.recommendations
            ELSE UArray(<<>>))

\* finally { setIsLoading(false) }
Finally == isLoading' = FALSE

\* what the try block throws once the body is read, if anything
ThrownAfterJson(ok, data) ==
    CASE data.t = "invalid" -> <<SyntaxErrorThrown>>
      [] data.t = "null" -> <<TypeErrorThrown>>
      [] ~ok \/ UTruthy(data.error) -> <<Thrown(TRUE, ResponseErrorMessage(data))>>
      [] OTHER -> <<>>

\* fetch rejects: catch and finally
FetchReject(i, thrown) ==
    /\ i \in DOMAIN pending
    /\ pending[i].stage = "fetch"
    /\ messages' = Append(pending[i].newMessages, ErrorMessage(thrown))
    /\ Finally
    /\ pending' = Remove(pending, i)
    /\ UNCHANGED <<input, coreVars>>

\* response.json() settles: the rest of the try block, catch and finally
JsonSettle(i) ==
    /\ i \in DOMAIN pending
    /\ pending[i].stage = "json"
    /\ LET data == pending[i].body
           thrown == ThrownAfterJson(pending[i].ok, data)
       IN messages' = Append(pending[i].newMessages,
                             IF thrown = <<>> THEN AnswerMessage(data)
                             ELSE ErrorMessage(thrown[1]))
    /\ Finally
    /\ pending' = Remove(pending, i)
    /\ UNCHANGED <<input, coreVars>>

NextUI ==
    \/ \E v \in TypedInputs : SetInput(v)
    \/ \E question \in SUGGESTED_QUESTIONS : HandleSuggestedQuestion(question)
    \/ HandleSend
    \/ \E i \in 1..MaxTurns, ok \in BOOLEAN, body \in Bodies : FetchResolve(i, ok, body)
    \/ \E i \in 1..MaxTurns, thrown \in FetchErrors : FetchReject(i, thrown)
    \/ \E i \in 1..MaxTurns : JsonSettle(i)

\* ------------------------------------------------------------ specifications

Init == CoreInit /\ UIInit
Spec == Init /\ [][Next]_vars

InitUI == CoreInit /\ credential /\ UIInit
SpecUI == InitUI /\ [][NextUI]_vars

\* -------------------------------------------------------------------- claims

Last(q) == q[Len(q)]
Recommendations == Range(result.recommendations)
Candidates == Range(similarCards)
\* the completion has arrived
ChatAnswered == completion # Pending
\* the completion's text is JSON text
IsJson(content) == content.json # NoJson
\* findSimilarCards has resolved
RetrievalReturned ==
    "retrieve" \in Range(steps) /\ "retrieve" \notin inProgress /\ failed # "retrieve"
\* embedQuery has resolved
EmbeddingReturned ==
    "embed" \in Range(steps) /\ "embed" \notin inProgress /\ failed # "embed"

RecA == Rec(Str("A"), Str("http://x"), Str("ok"))
RecZ == Rec(Str("Z"), Str("http://y"), Str("ok"))

\* C1: every recommendation returned carries the name of a card of the
\* candidate set retrieved for that call, whatever the model answered.
C1_NamesFromCandidates ==
    pc = "returned" =>
        \A rec \in Recommendations :
            /\ rec.credit_card_name.t = "string"
            /\ \E card \in Candidates : card.credit_card_name = rec.credit_card_name.s

\* the spec's example: the answer names A and Z, the candidates are A and C,
\* and only the A entry is returned
C1_Witness ==
    /\ pc = "returned"
    /\ completion = JsonText(ObjDoc(ArrayCards(<<RecA, RecZ>>)))
    /\ Candidates = {CardA, CardC}
    /\ result.recommendations = <<RecA>>

\* C2: every recommendation returned has its name and its application URL
\* both equal to those of one card of the candidate set.
C2_NameAndUrlFromCandidates ==
    pc = "returned" =>
        \A rec \in Recommendations :
            \E card \in Candidates :
                /\ Str(card.credit_card_name) = rec.credit_card_name
                /\ Str(card.url_application) = rec.apply_url

\* C3 as stated: when the completion's text is not JSON (empty or missing
\* content included) the request returns no recommendations and a non-empty
\* rawModelAnswer.
C3_NonEmptyRawAnswer ==
    ChatAnswered /\ ~IsJson(completion) =>
        /\ pc = "returned"
        /\ result.recommendations = <<>>
        /\ Truthy(result.rawModelAnswer)

\* C3 amended: when the completion's text is not JSON the request returns no
\* recommendations and the model's text unchanged as rawModelAnswer, which is
\* the empty string when the content is empty or missing.
C3_RawAnswerIsModelText ==
    ChatAnswered /\ ~IsJson(completion) =>
        /\ pc = "returned"
        /\ result.recommendations = <<>>
        /\ result.rawModelAnswer =
              IF completion.t = "string" THEN completion ELSE EmptyText
        /\ Truthy(result.rawModelAnswer) <=> (completion.t = "string" /\ completion.s # "")

C3_Witness ==
    /\ pc = "returned"
    /\ completion = NoContent
    /\ result = Response(<<>>, EmptyText)

\* C4: with the credential absent, when the request fails with the
\* configuration error no embedding or chat-completion call has been made.
C4_ConfigErrorBeforeAnyCall ==
    ~credential /\ pc = "thrown" /\ error = ConfigError =>
        /\ embedCalls = 0
        /\ chatCalls = 0

\* C5: a failed embedding or chat-completion call ends the request with the
\* service's error and no response, each service is called at most once, and
\* nothing runs once the error is thrown.
C5_FailFastNoRetry ==
    /\ [](/\ embedCalls <= 1
          /\ chatCalls <= 1
          /\ failed \in {"embed", "generate"} =>
                /\ pc = "thrown"
                /\ error \in ServiceErrors
                /\ result = NoResponse
                /\ Last(steps) = failed
                /\ inProgress = {})
    /\ [][pc = "thrown" => UNCHANGED coreVars]_vars

C5_Witness ==
    /\ failed = "generate"
    /\ pc = "thrown"
    /\ embedCalls = 1
    /\ chatCalls = 1

\* a field that is there and is not the empty string
Present(v) == v.t \notin {"undefined", "null"} /\ v # Str("")

\* C6: when the answer is JSON the request succeeds, every recommendation
\* returned is one of the answer's entries with name, URL and reason present,
\* and an answer without the "cards" member yields no recommendations.
C6_FieldsPresent ==
    ChatAnswered /\ IsJson(completion) =>
        /\ pc = "returned"
        /\ \A rec \in Recommendations :
              /\ rec \in Range(completion.json.cards.items)
              /\ Present(rec.credit_card_name)
              /\ Present(rec.apply_url)
              /\ Present(rec.reason)
        /\ completion.json.cards = NoCards => result.recommendations = <<>>

C6_Witness ==
    /\ pc = "returned"
    /\ completion =
          JsonText(ObjDoc(ArrayCards(<<Rec(Str("A"), Str("http://x"), Undefined), RecA>>)))
    /\ result.recommendations = <<RecA>>

StepRank(step) ==
    CASE step = "embed" -> 1
      [] step = "retrieve" -> 2
      [] step = "format" -> 3
      [] step = "generate" -> 4
      [] step = "assemble" -> 5

\* C7: the steps start in the order embed, retrieve, format, generate,
\* assemble, each at most once and at most one in progress; retrieval starts
\* only once the embedding has returned, the chat call only once retrieval has.
C7_StepsInOrder ==
    /\ \A i, j \in DOMAIN steps : i < j => StepRank(steps[i]) < StepRank(steps[j])
    /\ Cardinality(inProgress) <= 1
    /\ "retrieve" \in Range(steps) => EmbeddingReturned
    /\ ("generate" \in Range(steps) \/ chatCalls > 0) => RetrievalReturned

C7_Witness ==
    /\ pc = "returned"
    /\ steps = <<"embed", "retrieve", "format", "generate", "assemble">>

\* C9: when retrieval returns no candidate the request returns no
\* recommendations and 'No matching cards found.' with neither the chat model
\* called nor the credential checked; the chat model is called only with a
\* non-empty candidate set.
C9_NoCandidatesNoChat ==
    /\ RetrievalReturned /\ similarCards = <<>> =>
          /\ pc = "returned"
          /\ result = Response(<<>>, NoMatchText)
          /\ chatCalls = 0
          /\ clientChecks = 0
    /\ chatCalls > 0 => similarCards # <<>>

C9_Witness ==
    /\ ~credential
    /\ pc = "returned"
    /\ RetrievalReturned
    /\ similarCards = <<>>
    /\ result.rawModelAnswer = NoMatchText

\* the turn of a suspended invocation succeeds: an OK response whose body is
\* an object without a truthy error field
TurnSucceeds(p) ==
    p.stage = "json" /\ p.ok /\ p.body.t = "object" /\ ~UTruthy(p.body.error)

IsSyntheticError(m) ==
    /\ m.role = "assistant"
    /\ m.recommendations = UUndefined
    /\ Len(m.content) >= 3
    /\ m.content[1] = "Error: "
    /\ Last(m.content) = "\n\nPlease check: ..."

\* a settled invocation has put exactly one assistant message right after its
\* user message, with the content Content(p) on a successful turn
OneReplyPerSend(Content(_)) ==
    Len(pending') < Len(pending) =>
        \E i \in DOMAIN pending :
            LET p == pending[i]
                reply == messages'[Len(messages')]
            IN /\ pending' = Remove(pending, i)
               /\ Last(p.newMessages) = Message("user", p.userMessage, UUndefined)
               /\ messages = p.newMessages
               /\ messages' = Append(p.newMessages, reply)
               /\ reply.role = "assistant"
               /\ IF TurnSucceeds(p)
                  THEN reply.content = Content(p)
                  ELSE IsSyntheticError(reply)

Alternates ==
    /\ \A i \in DOMAIN messages :
          messages[i].role = IF i % 2 = 1 THEN "user" ELSE "assistant"
    /\ Len(messages) % 2 = Len(pending)

RawContent(p) == p.body.rawModelAnswer.s
RawOrFallback(p) ==
    IF Len(p.body.rawModelAnswer.s) > 0 THEN p.body.rawModelAnswer.s
    ELSE <<"Here are some recommendations for you:">>

\* C8 as stated: each send that passes the guard gets exactly one assistant
\* message right after the user's; on a successful turn its content is the raw
\* model text, on a failed turn it is a synthetic error message without
\* recommendations.
C8_ReplyIsRawText ==
    /\ []Alternates
    /\ [][OneReplyPerSend(RawContent)]_vars

\* C8 amended: as stated, except that on a successful turn the content is the
\* raw model text when that is non-empty and the fixed text 'Here are some
\* recommendations for you:' when it is empty or absent.
C8_ReplyIsRawTextOrFallback ==
    /\ []Alternates
    /\ [][OneReplyPerSend(RawOrFallback)]_vars

C8_Witness ==
    /\ pending = <<>>
    /\ Len(messages) = 4
    /\ messages[2].content = <<"Here are some recommendations for you:">>
    /\ messages[2].recommendations = UArray(<<>>)
    /\ IsSyntheticError(messages[4])

\* C10: isLoading is true exactly while a request is outstanding, at most one
\* is; a request starts only with isLoading false and a non-blank input, and
\* with the guard failing nothing changes but by the outstanding request
\* settling.
C10_LoadingIffOutstanding ==
    /\ [](/\ Len(pending) <= 1
          /\ isLoading <=> Len(pending) = 1)
    /\ [][/\ Len(pending') > Len(pending) => ~isLoading /\ Len(Trim(input)) > 0
          /\ (isLoading \/ Len(Trim(input)) = 0) /\ Len(pending') >= Len(pending) =>
                /\ Len(pending') = Len(pending)
                /\ messages' = messages
                /\ isLoading' = isLoading]_vars

C10_Witness ==
    /\ ~isLoading
    /\ pending = <<>>
    /\ Len(messages) = 4
    /\ Len(Trim(input)) > 0

====
